---- MODULE Spec2Model ----
(***************************************************************************)
(* Model of backend/app/widget/project.py: the Project / RemoteProject     *)
(* classes (assembly of a project from uploaded files, packaging, and the  *)
(* build / run / prove / submit operations executed in a container).       *)
(*                                                                         *)
(* Text is modelled as a sequence of atoms (strings): a file name is the   *)
(* sequence of its characters-or-chunks with "." as an atom of its own,    *)
(* file contents are sequences of atoms where " " is whitespace and "M"    *)
(* stands for a main-subprogram signature.  Concatenation of Python        *)
(* strings is \o.  An optional value (None or a value) is <<>> or <<v>>.   *)
(***************************************************************************)
EXTENDS Integers, Sequences, FiniteSets, TLC

\* ---------------------------------------------------------------- bounds
MaxFiles == 2
MaxClock == 1
MaxDel == 1

\* ------------------------------------------------------------- constants
CLI_FILE == <<"cli", ".", "txt">>

LAB_IO_FILE == <<"lab_io", ".", "txt">>

NL == "\n"

COMMON_ADC ==
  << NL, "pragma Restrictions (No_Specification_of_Aspect => Import);",
     NL, "pragma Restrictions (No_Use_Of_Pragma => Import);",
     NL, "pragma Restrictions (No_Use_Of_Pragma => Interface);",
     NL, "pragma Restrictions (No_Dependence => System.Machine_Code);",
     NL, "pragma Restrictions (No_Dependence => Machine_Code);",
     NL >>

SPARK_ADC ==
  << NL, "pragma Profile(GNAT_Extended_Ravenscar);",
     NL, "pragma Partition_Elaboration_Policy(Sequential);",
     NL, "pragma SPARK_Mode (On);",
     NL, "pragma Warnings (Off, \"no Global contract available\");",
     NL, "pragma Warnings (Off, \"subprogram * has no effect\");",
     NL, "pragma Warnings (Off, \"file name does not match\");",
     NL >>

TEMP_WORKSPACE_BASEDIR == <<"/", "workspace", "/", "sessions">>

\* os.path.basename(TEMPLATE_PROJECT)
TEMPLATE_PROJECT_NAME == <<"main", ".", "gpr">>

\* ------------------------------------------------------- generic helpers
None == <<>>

Some(v) == <<v>>

Whitespace == {" ", NL}

\* os.path.join(dir, name)
PathJoin(dir, name) == dir \o <<"/">> \o name

RECURSIVE SplitWs(_, _, _)
SplitWs(s, cur, acc) ==
  IF s = <<>>
    THEN (IF cur = <<>> THEN acc ELSE Append(acc, cur))
    ELSE IF Head(s) \in Whitespace
      THEN SplitWs(Tail(s), <<>>, IF cur = <<>> THEN acc ELSE Append(acc, cur))
      ELSE SplitWs(Tail(s), Append(cur, Head(s)), acc)

\* str.split(): the maximal runs of non-whitespace atoms, in order
StrSplit(s) == SplitWs(s, <<>>, <<>>)

RECURSIVE SplitDot(_, _, _)
SplitDot(s, cur, acc) ==
  IF s = <<>>
    THEN Append(acc, cur)
    ELSE IF Head(s) = "."
      THEN SplitDot(Tail(s), <<>>, Append(acc, cur))
      ELSE SplitDot(Tail(s), Append(cur, Head(s)), acc)

\* name.split('.')[0]: the text before the first "."
FirstDotField(name) == SplitDot(name, <<>>, <<>>)[1]

RECURSIVE StrJoin(_, _)
\* sep.join(parts)
StrJoin(sep, parts) ==
  IF parts = <<>> THEN <<>>
  ELSE IF Len(parts) = 1 THEN parts[1]
  ELSE parts[1] \o sep \o StrJoin(sep, Tail(parts))

\* ------------------------------------------------- file.py (not in src/)
\* new_file(basename, contents): a file object with a name and a content
new_file(basename, contents) == [name |-> basename, content |-> contents]

\* File.language(): by the extension of the name
language(f) ==
  LET ext == f.name[Len(f.name)]
  IN  IF Len(f.name) < 3 THEN "unknown"
      ELSE IF ext \in {"adb", "ads"} THEN "Ada"
      ELSE IF ext \in {"c", "h"} THEN "c"
      ELSE IF ext \in {"cpp", "hh"} THEN "c++"
      ELSE "unknown"

\* whether a file matches the signature of a main subprogram
is_main(f) == \E i \in 1..Len(f.content) : f.content[i] = "M"

RECURSIVE find_mains(_)
\* find_mains(file_list): the names of the files that are mains, in order
find_mains(fl) ==
  IF fl = <<>> THEN <<>>
  ELSE (IF is_main(Head(fl)) THEN <<Head(fl).name>> ELSE <<>>)
       \o find_mains(Tail(fl))

\* the project file main.gpr, rendered with its languages and mains
GprContent(languages, mains) ==
  <<"project Main is", NL, "for Languages use (">> \o languages
    \o <<");", NL, "for Main use (">> \o StrJoin(<<",">>, mains)
    \o <<");", NL, "end Main;">>

\* -------------------------------------------------- lab.py (not in src/)
\* One record of the lab io text is one whitespace-separated token: its
\* first atom is the expected output, the other atoms are the input
\* arguments; the key of a case is its position.
LabCase(k, tok) ==
  [key |-> k,
   input |-> [i \in 1..(Len(tok) - 1) |-> <<tok[i + 1]>>],
   expected |-> <<tok[1]>>,
   actual |-> None,
   code |-> None]

\* LabList(contents)
LabList(contents) ==
  LET toks == StrSplit(contents)
  IN  [k \in 1..Len(toks) |-> LabCase(k, toks[k])]

\* lab.check_actual(out, code): the oracle, exact match on the output
check_actual(lab, out, code) == out = lab.expected

\* the case after check_actual recorded the run's result on it
record_actual(lab, out, code) ==
  [lab EXCEPT !.actual = Some(out), !.code = Some(code)]

\* lab_list.get_results(): per case, its key and whether it passed
get_results(labs) ==
  [k \in 1..Len(labs) |->
     [key |-> labs[k].key,
      passed |-> labs[k].actual = Some(labs[k].expected)]]

\* ------------------------------------------------------- input universe
\* basenames an uploader may choose
FileNames ==
  { CLI_FILE, LAB_IO_FILE, <<"main", ".", "adb">>, <<"a", ".", "b", ".", "c">> }

\* contents an uploader may choose: an empty text, and a text with leading
\* and repeated whitespace holding a main signature and two tokens
FileContents == { <<>>, <<" ", "M", " ", " ", "x", "y">> }

UploadedFiles == [basename : FileNames, contents : FileContents]

FileSets == UNION { [1..n -> UploadedFiles] : n \in 0..MaxFiles }

\* names mkdtemp may return (basename of the local temporary directory)
TmpNames == { <<"tmpa">> }

\* exit codes of a remote command: success, and the code `timeout` exits
\* with when the 10 seconds are over
ExitCodes == {0, 124}

\* captured stdout of a remote command
Outputs == { <<"M">>, <<"x">> }

\* what container.execute / execute_noenv may do: raise, or return
\* (code, out, err)
ExecResults ==
  { [raise |-> TRUE, code |-> 0, out |-> <<>>] }
  \cup { [raise |-> FALSE, code |-> c, out |-> o] : c \in ExitCodes, o \in Outputs }

\* arguments a caller may pass
CliArgs == { None, Some(<<>>), Some(<< <<"y">> >>) }

LabRefs == { None, Some(1) }

ExtraArgs == { <<>>, << <<"--mode=check">> >> }

\* ----------------------------------------------------------------- state
VARIABLES
  files,         \* the files passed to the constructor
  spark_mode,    \* the spark_mode passed to the constructor
  phase,         \* "new" | "staged" | "failed" (the constructor raised)
  file_list,     \* self.file_list
  cli,           \* self.cli: None or Some(list of tokens)
  spark,         \* self.spark
  gpr,           \* self.gpr: [name, languages, mains]
  lab_list,      \* self.lab_list: None when the attribute was never set
  main,          \* self.main: None or Some(text)
  local_tempd,   \* self.local_tempd
  remote_tempd,  \* self.remote_tempd
  container,     \* the directories of the container: set of [path, files]
  local_dirs,    \* the local temporary directories that exist
  owner,         \* "caller" holds the object | "dropped" | "finalized"
  dels,          \* how many times the caller invoked __del__
  peers,         \* the objects of several tasks that use one container
  clock,         \* the local time when zip was last called
  archives,      \* the byte streams zip() returned so far
  last           \* the last operation: arguments, outcome, remote calls, events

projVars == <<file_list, cli, spark, gpr, lab_list, main>>

remoteVars == <<local_tempd, remote_tempd, container, local_dirs>>

lifeVars == <<owner, dels, peers>>

inputVars == <<files, spark_mode>>

vars == <<files, spark_mode, phase, file_list, cli, spark, gpr, lab_list, main,
          local_tempd, remote_tempd, container, local_dirs, owner, dels,
          peers, clock, archives, last>>

\* the record of an operation
Op(name) ==
  [op |-> name, raised |-> "None", exc_code |-> -1,
   ret_code |-> -1, ret_out |-> <<>>,
   cli_arg |-> None, lab_ref |-> None, extra_args |-> <<>>,
   exec |-> <<>>, remote |-> <<>>, events |-> <<>>, successes |-> <<>>,
   ret_zip |-> <<>>]

\* the caller is between two operations
Idle == last.op = "none"

\* a call of the container, and an event sent through an MQReporter
RemoteCall(fn, line) == [fn |-> fn, line |-> line]

Event(kind, ref, data) ==
  [kind |-> kind, lab_ref |-> ref, data |-> data, success |-> FALSE,
   results |-> <<>>]

LabEvent(success, results) ==
  [kind |-> "lab", lab_ref |-> None, data |-> <<>>, success |-> success,
   results |-> results]

\* -------------------------------------------------------- Project.__init__
IsReserved(file) == file.basename \in {CLI_FILE, LAB_IO_FILE}

\* a selection that keeps lab_io.txt among the source files
SourceFilesKeepLab(fs) == SelectSeq(fs, LAMBDA file : file.basename # CLI_FILE)

\* the files that are neither cli.txt nor lab_io.txt, in input order
SourceFiles(fs) == SelectSeq(fs, LAMBDA file : ~IsReserved(file))

RECURSIVE CliOf(_, _)
\* self.cli after the loop: the split contents of the last cli.txt
CliOf(fs, acc) ==
  IF fs = <<>> THEN acc
  ELSE CliOf(Tail(fs),
             IF Head(fs).basename = CLI_FILE
               THEN Some(StrSplit(Head(fs).contents)) ELSE acc)

RECURSIVE LabListOf(_, _)
\* self.lab_list after the loop: set only when a lab_io.txt was seen
LabListOf(fs, acc) ==
  IF fs = <<>> THEN acc
  ELSE LabListOf(Tail(fs),
                 IF Head(fs).basename = CLI_FILE THEN acc
                 ELSE IF Head(fs).basename = LAB_IO_FILE
                   THEN Some(LabList(Head(fs).contents)) ELSE acc)

UserFileList(fs) ==
  LET src == SourceFiles(fs)
  IN  [i \in 1..Len(src) |-> new_file(src[i].basename, src[i].contents)]

HasLanguage(fl, l) == \E i \in 1..Len(fl) : language(fl[i]) = l

Languages(fl) ==
  (IF HasLanguage(fl, "Ada") THEN <<"Ada">> ELSE <<>>)
  \o (IF HasLanguage(fl, "c") THEN <<"c">> ELSE <<>>)
  \o (IF HasLanguage(fl, "c++") THEN <<"c++">> ELSE <<>>)

\* a main.adc whose two blocks are not separated
AdcContentJoined(sm) ==
  IF sm THEN COMMON_ADC \o SPARK_ADC ELSE COMMON_ADC

\* the content of main.adc
AdcContent(sm) ==
  IF sm THEN COMMON_ADC \o <<NL>> \o SPARK_ADC ELSE COMMON_ADC

ADC_NAME == <<"main", ".", "adc">>

\* self.main for a list of mains of length <= 1
MainOf(mains) ==
  IF Len(mains) = 1 THEN Some(FirstDotField(mains[1])) ELSE None

\* The constructor of Project: its outcome and the attributes it leaves.
ProjectInit(fs, sm) ==
  LET user  == UserFileList(fs)
      langs == Languages(user)
      mains == find_mains(user)
      mn    == MainOf(mains)
      g     == [name |-> TEMPLATE_PROJECT_NAME, languages |-> langs,
                mains |-> IF mn = None THEN <<>> ELSE <<mn[1]>>]
  IN  IF Len(mains) > 1
        THEN [raised |-> "ProjectError", file_list |-> user,
              cli |-> CliOf(fs, None), lab_list |-> LabListOf(fs, None),
              main |-> None,
              gpr |-> g]
        ELSE [raised |-> "None",
              file_list |-> user
                 \o << new_file(g.name, GprContent(g.languages, g.mains)),
                       new_file(ADC_NAME, AdcContent(sm)) >>,
              cli |-> CliOf(fs, None), lab_list |-> LabListOf(fs, None),
              main |-> mn, gpr |-> g]

\* Python truth of self.main / self.cli: None and the empty value are false
Truthy(opt) == opt # None /\ opt[1] # <<>>

\* ------------------------------------------------- RemoteProject.__init__
\* the state before the constructor runs
Fresh ==
  /\ spark_mode \in BOOLEAN
  /\ phase = "new"
  /\ file_list = <<>>
  /\ cli = None
  /\ spark = FALSE
  /\ gpr = [name |-> TEMPLATE_PROJECT_NAME, languages |-> <<>>, mains |-> <<>>]
  /\ lab_list = None
  /\ main = None
  /\ local_tempd = None
  /\ remote_tempd = None
  /\ container = {}
  /\ local_dirs = {}
  /\ owner = "caller"
  /\ dels = 0
  /\ peers = <<>>
  /\ clock = 0
  /\ archives = {}
  /\ last = Op("none")

Init ==
  /\ files \in FileSets
  /\ Fresh

\* uploads for a lab: a cli.txt and a lab_io.txt, then fewer than MaxFiles
\* other files
LabFileSets ==
  { << [basename |-> CLI_FILE, contents |-> c],
       [basename |-> LAB_IO_FILE, contents |-> l] >> \o rest :
      c \in FileContents, l \in FileContents,
      rest \in UNION { [1..n -> UploadedFiles] : n \in 0..(MaxFiles - 1) } }

InitLab ==
  /\ files \in LabFileSets
  /\ Fresh

\* how far the staging of the constructor gets: it completes ("ok"), or
\* mkdtemp, container.mkdir or container.push_files raises
StageOutcomes == {"ok", "mkdtemp", "mkdir", "push_files"}

LocalTemp(t) == <<"/", "tmp", "/">> \o t

\* an mkdtemp that may return the name of a directory that exists
mkdtempAny(names, existing) == names

\* tempfile.mkdtemp: the names, among those it draws from, of the
\* directories it can create: none of them exists yet
mkdtemp(names, existing) == { t \in names : LocalTemp(t) \notin existing }

\* container.push_files(fl, dst) into a directory that holds dir_files: the
\* files pushed replace those of the same name
PushFiles(dir_files, fl) ==
  LET Kept(f) == \A k \in 1..Len(fl) : fl[k].name # f.name
  IN  SelectSeq(dir_files, Kept) \o fl

\* The staging of RemoteProject.__init__ after Project.__init__ returned
\* file list fl: the attributes, directories and outcome it leaves when it
\* gets as far as st with temporary name t, push_files having pushed the
\* first n files when it raises.
Stage(fl, st, t, n) ==
  LET remote == PathJoin(TEMP_WORKSPACE_BASEDIR, t)
      there  == { d \in container : d.path = remote }
      old    == IF there = {} THEN <<>> ELSE (CHOOSE d \in there : TRUE).files
      mk     == RemoteCall("mkdir", <<remote>>)
      push   == RemoteCall("push_files", <<remote>>)
  IN  IF st = "mkdtemp"
        THEN [raised |-> "OSError", local_tempd |-> None, remote_tempd |-> None,
              local_dirs |-> local_dirs, container |-> container,
              remote |-> <<>>]
      ELSE IF st = "mkdir"
        THEN [raised |-> "ContainerError",
              local_tempd |-> Some(LocalTemp(t)), remote_tempd |-> Some(remote),
              local_dirs |-> local_dirs \cup {LocalTemp(t)},
              container |-> container, remote |-> <<mk>>]
      ELSE IF st = "push_files"
        THEN [raised |-> "ContainerError",
              local_tempd |-> Some(LocalTemp(t)), remote_tempd |-> Some(remote),
              local_dirs |-> local_dirs \cup {LocalTemp(t)},
              container |-> (container \ there) \cup
                 { [path |-> remote, files |-> PushFiles(old, SubSeq(fl, 1, n))] },
              remote |-> <<mk, push>>]
        ELSE [raised |-> "None",
              local_tempd |-> Some(LocalTemp(t)), remote_tempd |-> Some(remote),
              local_dirs |-> local_dirs \cup {LocalTemp(t)},
              container |-> (container \ there) \cup
                 { [path |-> remote, files |-> PushFiles(old, fl)] },
              remote |-> <<mk, push>>]

RemoteProjectInit ==
  /\ phase = "new"
  /\ LET p == ProjectInit(files, spark_mode)
     IN  /\ file_list' = p.file_list
         /\ cli' = p.cli
         /\ spark' = spark_mode
         /\ gpr' = p.gpr
         /\ lab_list' = p.lab_list
         /\ main' = p.main
         /\ IF p.raised # "None"
              THEN /\ phase' = "failed"
                   /\ owner' = "dropped"
                   /\ last' = [Op("init") EXCEPT !.raised = p.raised]
                   /\ UNCHANGED remoteVars
              ELSE \E st \in StageOutcomes, t \in mkdtemp(TmpNames, local_dirs),
                      n \in 0..(Len(p.file_list) - 1) :
                   LET g == Stage(p.file_list, st, t, n)
                   IN  /\ (st # "push_files" => n = 0)
                       /\ phase' = IF g.raised = "None" THEN "staged" ELSE "failed"
                       /\ owner' = IF g.raised = "None" THEN "caller" ELSE "dropped"
                       /\ local_tempd' = g.local_tempd
                       /\ remote_tempd' = g.remote_tempd
                       /\ local_dirs' = g.local_dirs
                       /\ container' = g.container
                       /\ last' = [Op("init") EXCEPT !.raised = g.raised,
                                                    !.remote = g.remote]
  /\ UNCHANGED <<inputVars, dels, peers, clock, archives>>

\* --------------------------------------------------- RemoteProject.build
\* a one-atom text
T(a) == <<a>>

BuildConsole ==
  << T("gprbuild"), T("-q"), T("-P"), gpr.name, T("-gnatwa"), T("-gnata") >>

BuildLine ==
  << T("gprbuild"), T("-q"), T("-P"), PathJoin(remote_tempd[1], gpr.name),
     T("-gnatwa"), T("-gnata") >>

\* build() up to the return of container.execute
BuildCall(r) ==
  [Op("build") EXCEPT
     !.exec = <<r>>,
     !.events = << Event("console", None, BuildConsole) >>,
     !.remote = << RemoteCall("execute", BuildLine) >>]

BuildFailed == Event("stderr", None, <<T("Build failed with error code: ")>>)

\* a build that fails without reporting the failure
BuildResultSilent(r) ==
  LET o == BuildCall(r)
  IN  IF r.raise THEN [o EXCEPT !.raised = "ContainerError"]
      ELSE IF r.code # 0
        THEN [o EXCEPT !.raised = "BuildError", !.exc_code = r.code]
        ELSE [o EXCEPT !.ret_code = r.code]

\* build(), when container.execute does r
BuildResult(r) ==
  LET o == BuildCall(r)
  IN  IF r.raise THEN [o EXCEPT !.raised = "ContainerError"]
      ELSE IF r.code # 0
        THEN [o EXCEPT !.raised = "BuildError", !.exc_code = r.code,
                       !.events = @ \o <<BuildFailed>>]
        ELSE [o EXCEPT !.ret_code = r.code]

build ==
  /\ phase = "staged"
  /\ owner = "caller"
  /\ Idle
  /\ \E r \in ExecResults : last' = BuildResult(r)
  /\ UNCHANGED <<inputVars, phase, projVars, remoteVars, lifeVars, clock, archives>>

\* ----------------------------------------------------- RemoteProject.run
\* the cli run() uses: the argument unless it is None or empty, then
\* self.cli unless it is None or empty, then []
EffectiveCli(cli_arg) ==
  IF ~Truthy(cli_arg)
    THEN (IF ~Truthy(cli) THEN <<>> ELSE cli[1])
    ELSE cli_arg[1]

RunConsole(c) == << T("./") \o main[1], StrJoin(T(" "), c) >>

\* the backquote of the shell line is written as the atom BQ
BQ == "BACKQUOTE"

RunLine(c) ==
  << T("sudo"), T("-u"), T("unprivileged"), T("timeout"), T("10s"),
     T("bash"), T("-c"),
     T("LD_PRELOAD=/preloader.so ") \o PathJoin(remote_tempd[1], main[1])
       \o <<" ", BQ, "echo ">> \o StrJoin(T(" "), c) \o T(BQ) >>

\* a run that takes an exit code other than 0 for a failure of the run
RunExecChecked(o, c, lab_ref, r) ==
  LET q == [o EXCEPT
              !.exec = <<r>>,
              !.events = << Event("console", lab_ref, RunConsole(c)) >>,
              !.remote = << RemoteCall("execute_noenv", RunLine(c)) >>]
  IN  IF r.raise THEN [q EXCEPT !.raised = "ContainerError"]
      ELSE IF r.code # 0 THEN [q EXCEPT !.raised = "RunError"]
      ELSE [q EXCEPT !.ret_code = r.code, !.ret_out = r.out]

\* run() past its guard: the echo of the command, the remote call and its
\* outcome
RunExec(o, c, lab_ref, r) ==
  LET q == [o EXCEPT
              !.exec = <<r>>,
              !.events = << Event("console", lab_ref, RunConsole(c)) >>,
              !.remote = << RemoteCall("execute_noenv", RunLine(c)) >>]
  IN  IF r.raise THEN [q EXCEPT !.raised = "ContainerError"]
      ELSE [q EXCEPT !.ret_code = r.code, !.ret_out = r.out]

\* a run that echoes the command before it looks for the main
RunResultEchoFirst(cli_arg, lab_ref, r) ==
  LET o == [Op("run") EXCEPT !.cli_arg = cli_arg, !.lab_ref = lab_ref]
      c == EffectiveCli(cli_arg)
  IN  IF ~Truthy(main)
        THEN [o EXCEPT !.raised = "RunError",
                       !.events = << Event("console", lab_ref, <<StrJoin(T(" "), c)>>) >>]
        ELSE RunExec(o, c, lab_ref, r)

\* run(lab_ref, cli), when container.execute_noenv does r
RunResult(cli_arg, lab_ref, r) ==
  LET o == [Op("run") EXCEPT !.cli_arg = cli_arg, !.lab_ref = lab_ref]
  IN  IF ~Truthy(main) THEN [o EXCEPT !.raised = "RunError"]
      ELSE RunExec(o, EffectiveCli(cli_arg), lab_ref, r)

run ==
  /\ phase = "staged"
  /\ owner = "caller"
  /\ Idle
  /\ \E cli_arg \in CliArgs, lab_ref \in LabRefs, r \in ExecResults :
       last' = RunResult(cli_arg, lab_ref, r)
  /\ UNCHANGED <<inputVars, phase, projVars, remoteVars, lifeVars, clock, archives>>

\* --------------------------------------------------- RemoteProject.prove
ProveFlags ==
  << T("--checks-as-errors"), T("--level=0"), T("--no-axiom-guard") >>

ProveConsole(extra_args) ==
  << T("gnatprove"), T("-P"), gpr.name >> \o ProveFlags \o extra_args

ProveLine(extra_args) ==
  << T("gnatprove"), T("-P"), PathJoin(remote_tempd[1], gpr.name) >>
    \o ProveFlags \o extra_args

\* prove() past its guard
ProveExec(o, extra_args, r) ==
  LET q == [o EXCEPT
              !.exec = <<r>>,
              !.events = << Event("console", None, ProveConsole(extra_args)) >>,
              !.remote = << RemoteCall("execute", ProveLine(extra_args)) >>]
  IN  IF r.raise THEN [q EXCEPT !.raised = "ContainerError"]
      ELSE [q EXCEPT !.ret_code = r.code]

\* a prove that does not look at the spark mode
ProveResultNoGuard(extra_args, r) ==
  ProveExec([Op("prove") EXCEPT !.extra_args = extra_args], extra_args, r)

\* prove(extra_args), when container.execute does r
ProveResult(extra_args, r) ==
  LET o == [Op("prove") EXCEPT !.extra_args = extra_args]
  IN  IF ~spark THEN [o EXCEPT !.raised = "ProveError"]
      ELSE ProveExec(o, extra_args, r)

prove ==
  /\ phase = "staged"
  /\ owner = "caller"
  /\ Idle
  /\ \E extra_args \in ExtraArgs, r \in ExecResults :
       last' = ProveResult(extra_args, r)
  /\ UNCHANGED <<inputVars, phase, projVars, remoteVars, lifeVars, clock, archives>>

\* -------------------------------------------------- RemoteProject.submit
\* a verdict that one passing case is enough for
AnyOf(successes) == \E i \in 1..Len(successes) : successes[i]

\* all(successes)
All(successes) == \A i \in 1..Len(successes) : successes[i]

\* a loop that records every result on the first case
CheckActualOnFirst(labs, k, out, code) ==
  [labs EXCEPT ![1] = record_actual(labs[k], out, code)]

\* lab.check_actual(out, code) in the iteration of case k: the cases after
\* it
CheckActualOn(labs, k, out, code) ==
  [labs EXCEPT ![k] = record_actual(labs[k], out, code)]

RECURSIVE SubmitLoop(_, _, _, _)
\* the loop over the labs from case k on: rs[k] is what the container does
\* for the run of case k; o accumulates what submit did so far
SubmitLoop(k, labs, rs, o) ==
  IF k > Len(labs) THEN [op |-> o, labs |-> labs]
  ELSE LET lab == labs[k]
           rr  == RunResult(Some(lab.input), Some(lab.key), rs[k])
           o2  == [o EXCEPT !.exec = @ \o rr.exec,
                            !.events = @ \o rr.events,
                            !.remote = @ \o rr.remote]
       IN  IF rr.raised # "None"
             THEN [op |-> [o2 EXCEPT !.raised = rr.raised], labs |-> labs]
             ELSE SubmitLoop(k + 1,
                    CheckActualOn(labs, k, rr.ret_out, rr.ret_code),
                    rs,
                    [o2 EXCEPT !.successes =
                       Append(@, check_actual(lab, rr.ret_out, rr.ret_code))])

\* the verdict submit reports after the loop
SubmitVerdict(successes, labs) == LabEvent(All(successes), get_results(labs))

\* a submit that reports a verdict on the cases it got through when a run
\* raised
SubmitResultAlwaysVerdict(rs) ==
  LET l == SubmitLoop(1, lab_list[1], rs, Op("submit"))
  IN  [op |-> [l.op EXCEPT !.events =
                 @ \o << SubmitVerdict(l.op.successes, l.labs) >>],
       labs |-> l.labs]

\* submit(), for a project with a main and a lab_list
SubmitResult(rs) ==
  LET l == SubmitLoop(1, lab_list[1], rs, Op("submit"))
  IN  IF l.op.raised # "None" THEN l
      ELSE [op |-> [l.op EXCEPT !.events =
                      @ \o << SubmitVerdict(l.op.successes, l.labs) >>],
            labs |-> l.labs]

submit ==
  /\ phase = "staged"
  /\ owner = "caller"
  /\ Idle
  /\ IF ~Truthy(main)
       THEN /\ last' = [Op("submit") EXCEPT !.raised = "SubmitError"]
            /\ UNCHANGED lab_list
       ELSE IF lab_list = None
         \* self.lab_list was never assigned: reading it raises
         THEN /\ last' = [Op("submit") EXCEPT !.raised = "AttributeError"]
              /\ UNCHANGED lab_list
         \* a LabList object is true
         ELSE \E rs \in [1..Len(lab_list[1]) -> ExecResults] :
                LET res == SubmitResult(rs)
                IN  /\ last' = res.op
                    /\ lab_list' = Some(res.labs)
  /\ UNCHANGED <<inputVars, phase, file_list, cli, spark, gpr, main,
                 remoteVars, lifeVars, clock, archives>>

\* ------------------------------------------------------------ Project.zip
\* an archive written from the last file of the list to the first
ZipArchiveReversed(fl, now) ==
  [i \in 1..Len(fl) |->
     [name |-> fl[Len(fl) + 1 - i].name, data |-> fl[Len(fl) + 1 - i].content,
      date_time |-> now]]

\* The bytes of the archive: per entry of the list, in order, the name,
\* the (deflated) content, and the timestamp ZipFile.writestr stamps an
\* entry with when it is given a name: the local time of the call.
ZipArchive(fl, now) ==
  [i \in 1..Len(fl) |->
     [name |-> fl[i].name, data |-> fl[i].content, date_time |-> now]]

\* the local times a call of zip may read
ZipTimes == 0..MaxClock

zip ==
  /\ phase = "staged"
  /\ owner = "caller"
  /\ Idle
  /\ \E now \in ZipTimes :
       /\ now >= clock
       /\ clock' = now
       /\ LET a == ZipArchive(file_list, now)
          IN  /\ archives' = archives \cup {a}
              /\ last' = [Op("zip") EXCEPT !.ret_zip = a]
  /\ UNCHANGED <<inputVars, phase, projVars, remoteVars, lifeVars>>

\* ------------------------------------------------ RemoteProject.__del__
\* __del__(), when container.rmdir raises (rmdir_raises) or not: reading an
\* attribute the constructor never set raises; shutil.rmtree raises when
\* the directory does not exist; container.rmdir of a directory that does
\* not exist is no error.
DelOf(local_tempd_, remote_tempd_, rmdir_raises) ==
  LET o == Op("del")
  IN  IF local_tempd_ = None
        THEN [op |-> [o EXCEPT !.raised = "AttributeError"],
              local_dirs |-> local_dirs, container |-> container]
      ELSE IF local_tempd_[1] \notin local_dirs
        THEN [op |-> [o EXCEPT !.raised = "FileNotFoundError"],
              local_dirs |-> local_dirs, container |-> container]
      ELSE LET q == [o EXCEPT !.remote = << RemoteCall("rmdir", <<remote_tempd_[1]>>) >>]
           IN  IF rmdir_raises
                 THEN [op |-> [q EXCEPT !.raised = "ContainerError"],
                       local_dirs |-> local_dirs \ {local_tempd_[1]},
                       container |-> container]
                 ELSE [op |-> q,
                       local_dirs |-> local_dirs \ {local_tempd_[1]},
                       container |-> { d \in container : d.path # remote_tempd_[1] }]

\* __del__() of the object
DelResult(rmdir_raises) == DelOf(local_tempd, remote_tempd, rmdir_raises)

\* the caller invokes __del__ on the object it holds
del ==
  /\ phase = "staged"
  /\ owner = "caller"
  /\ Idle
  /\ dels < MaxDel
  /\ dels' = dels + 1
  /\ \E rmdir_raises \in BOOLEAN :
       LET d == DelResult(rmdir_raises)
       IN  /\ last' = d.op
           /\ local_dirs' = d.local_dirs
           /\ container' = d.container
  /\ UNCHANGED <<inputVars, phase, projVars, local_tempd, remote_tempd, owner,
                 peers, clock, archives>>

\* the caller leaves: it returns or lets an exception propagate, and holds
\* the object no longer
Drop ==
  /\ phase = "staged"
  /\ owner = "caller"
  /\ Idle
  /\ owner' = "dropped"
  /\ UNCHANGED <<inputVars, phase, projVars, remoteVars, dels, peers, clock,
                 archives, last>>

\* the interpreter finalizes the object nobody holds: it calls __del__
Finalize ==
  /\ owner = "dropped"
  /\ Idle
  /\ owner' = "finalized"
  /\ \E rmdir_raises \in BOOLEAN :
       LET d == DelResult(rmdir_raises)
       IN  /\ last' = d.op
           /\ local_dirs' = d.local_dirs
           /\ container' = d.container
  /\ UNCHANGED <<inputVars, phase, projVars, local_tempd, remote_tempd, dels,
                 peers, clock, archives>>

\* the caller takes the outcome of the operation; it may then call again
Return ==
  /\ ~Idle
  /\ last' = Op("none")
  /\ UNCHANGED <<inputVars, phase, projVars, remoteVars, lifeVars, clock, archives>>

Next ==
  \/ RemoteProjectInit
  \/ build
  \/ run
  \/ prove
  \/ submit
  \/ zip
  \/ Return

\* the operations, with the end of the object's life
NextLife ==
  \/ RemoteProjectInit
  \/ build
  \/ run
  \/ prove
  \/ submit
  \/ Return
  \/ del
  \/ Drop
  \/ Finalize

SpecLife == Init /\ [][NextLife]_vars

\* the submission of a lab
NextSubmit ==
  \/ RemoteProjectInit
  \/ submit
  \/ Return

SpecSubmit == InitLab /\ [][NextSubmit]_vars

\* ------------------------------------------- several objects, one container
\* two tasks, each with a RemoteProject of its own, on one worker host and
\* one container
Peers == {1, 2}

PeerTmpNames == { <<"tmpa">>, <<"tmpb">> }

\* the upload of task i: one file, named after the task
PeerUpload(i) ==
  << [basename |-> IF i = 1 THEN <<"main", ".", "adb">> ELSE <<"a", ".", "b", ".", "c">>,
      contents |-> <<>>] >>

\* self.file_list of the object of task i
PeerFileList(i) == ProjectInit(PeerUpload(i), FALSE).file_list

InitPeers ==
  /\ files = <<>>
  /\ spark_mode = FALSE
  /\ phase = "new"
  /\ file_list = <<>>
  /\ cli = None
  /\ spark = FALSE
  /\ gpr = [name |-> TEMPLATE_PROJECT_NAME, languages |-> <<>>, mains |-> <<>>]
  /\ lab_list = None
  /\ main = None
  /\ local_tempd = None
  /\ remote_tempd = None
  /\ container = {}
  /\ local_dirs = {}
  /\ owner = "caller"
  /\ dels = 0
  /\ peers = [i \in Peers |->
               [phase |-> "new", local_tempd |-> None, remote_tempd |-> None,
                cwd |-> None, raised |-> "None"]]
  /\ clock = 0
  /\ archives = {}
  /\ last = Op("none")

\* RemoteProject(container, task_id, files) in task i
PeerInit(i) ==
  /\ peers[i].phase = "new"
  /\ \E st \in StageOutcomes, t \in mkdtemp(PeerTmpNames, local_dirs),
        n \in 0..(Len(PeerFileList(i)) - 1) :
       LET g == Stage(PeerFileList(i), st, t, n)
       IN  /\ (st # "push_files" => n = 0)
           /\ peers' = [peers EXCEPT ![i] =
                 [phase |-> IF g.raised = "None" THEN "staged" ELSE "failed",
                  local_tempd |-> g.local_tempd,
                  remote_tempd |-> g.remote_tempd,
                  cwd |-> None, raised |-> g.raised]]
           /\ local_dirs' = g.local_dirs
           /\ container' = g.container
  /\ UNCHANGED <<inputVars, phase, projVars, local_tempd, remote_tempd, owner,
                 dels, clock, archives, last>>

\* build() in task i: the directory its command names
PeerBuild(i) ==
  /\ peers[i].phase = "staged"
  /\ peers' = [peers EXCEPT ![i].cwd = peers[i].remote_tempd]
  /\ UNCHANGED <<inputVars, phase, projVars, remoteVars, owner, dels, clock,
                 archives, last>>

\* the object of task i is finalized: __del__()
PeerDel(i) ==
  /\ peers[i].phase \in {"staged", "failed"}
  /\ \E rmdir_raises \in BOOLEAN :
       LET d == DelOf(peers[i].local_tempd, peers[i].remote_tempd, rmdir_raises)
       IN  /\ peers' = [peers EXCEPT ![i].phase = "finalized",
                                     ![i].raised = d.op.raised]
           /\ local_dirs' = d.local_dirs
           /\ container' = d.container
  /\ UNCHANGED <<inputVars, phase, projVars, local_tempd, remote_tempd, owner,
                 dels, clock, archives, last>>

NextPeers ==
  \/ \E i \in Peers : PeerInit(i)
  \/ \E i \in Peers : PeerBuild(i)
  \/ \E i \in Peers : PeerDel(i)

SpecPeers == InitPeers /\ [][NextPeers]_vars

Spec == Init /\ [][Next]_vars

\* ================================================================ claims
\* the uploaded files that become source files and match the signature of
\* a main subprogram
MainInputs ==
  { i \in 1..Len(files) :
      /\ ~IsReserved(files[i])
      /\ \E j \in 1..Len(files[i].contents) : files[i].contents[j] = "M" }

\* a name without its extension: the text before its last "."
StripExtension(name) ==
  LET dots == { i \in 1..Len(name) : name[i] = "." }
  IN  IF dots = {} THEN name
      ELSE SubSeq(name, 1, (CHOOSE d \in dots : \A e \in dots : e <= d) - 1)

\* the constructor has just ended: it raised, or it returned the project
Constructed == last.op = "init"

Assembled == last.op = "init" /\ phase = "staged"

\* C1: with two or more source files matching the entry-point signature the
\* constructor fails with the project error and no project is produced;
\* with exactly one, it succeeds and main is that file's basename
\* stripped of its extension; with none, it succeeds and main is absent.
C1_EntryPoint ==
  Constructed =>
    /\ Cardinality(MainInputs) >= 2 => phase = "failed"
    /\ Cardinality(MainInputs) >= 2 => last.raised = "ProjectError"
    /\ Cardinality(MainInputs) = 1 =>
         /\ last.raised # "ProjectError"
         /\ \A i \in MainInputs : main = Some(StripExtension(files[i].basename))
    /\ Cardinality(MainInputs) = 0 =>
         (last.raised # "ProjectError" /\ main = None)

\* C2: submit on a project without a main, or without a lab list, fails
\* with SubmitError, runs nothing and reports no verdict.
C2_SubmitGuard ==
  (last.op = "submit" /\ (main = None \/ lab_list = None)) =>
    /\ last.raised = "SubmitError"
    /\ last.remote = <<>>
    /\ last.events = <<>>

\* C3: when submit completes, the verdict it reports is the conjunction of
\* the per-case comparisons of the actual output with the expected output,
\* and the per-case results it reports are those comparisons.
C3_Verdict ==
  (last.op = "submit" /\ last.raised = "None") =>
    LET labs == lab_list[1]
        ev   == last.events[Len(last.events)]
    IN  /\ Len(last.exec) = Len(labs)
        /\ ev.kind = "lab"
        /\ ev.success = (\A k \in 1..Len(labs) : last.exec[k].out = labs[k].expected)
        /\ Len(ev.results) = Len(labs)
        /\ \A k \in 1..Len(labs) :
             ev.results[k].passed = (last.exec[k].out = labs[k].expected)

\* a completed submit of two cases: the first passed, the second did not,
\* and the verdict is a failure
C3_Witness ==
  /\ last.op = "submit" /\ last.raised = "None"
  /\ Len(lab_list[1]) = 2
  /\ last.exec[1].out = lab_list[1][1].expected
  /\ last.exec[2].out # lab_list[1][2].expected
  /\ ~last.events[Len(last.events)].success

\* C4: run on a project without a main fails with RunError, with no remote
\* call made and no event sent, whatever the cli and lab_ref arguments.
C4_RunGuard ==
  (last.op = "run" /\ main = None) =>
    /\ last.raised = "RunError"
    /\ last.remote = <<>>
    /\ last.events = <<>>

\* run was called with a cli and a lab_ref on a project without a main
C4_Witness ==
  /\ last.op = "run" /\ main = None
  /\ Truthy(last.cli_arg) /\ last.lab_ref # None
  /\ last.raised = "RunError"

\* C5: prove on a project that is not in spark mode fails with ProveError
\* with no remote call made, whatever the extra arguments; on a project in
\* spark mode prove never fails with ProveError.
C5_ProveGuard ==
  last.op = "prove" =>
    /\ ~spark_mode => (last.raised = "ProveError" /\ last.remote = <<>>)
    /\ spark_mode => (last.raised # "ProveError" /\ Len(last.remote) = 1)

\* prove was called with extra arguments on a project not in spark mode
C5_Witness ==
  /\ last.op = "prove" /\ ~spark_mode
  /\ last.extra_args # <<>>
  /\ last.raised = "ProveError"

\* what build did, given what the remote command returned
C6_BuildOutcome ==
  (last.op = "build" /\ ~last.exec[1].raise) =>
    LET c == last.exec[1].code
    IN  /\ c # 0 =>
             /\ last.raised = "BuildError" /\ last.exc_code = c
             /\ Len(last.events) = 2
             /\ last.events[2].kind = "stderr"
        /\ c = 0 =>
             /\ last.raised = "None" /\ last.ret_code = 0
             /\ \A i \in 1..Len(last.events) : last.events[i].kind # "stderr"

\* C6: for every exit code c of the remote build command: if c is not 0,
\* build reports the failure and fails with BuildError carrying c; if c is
\* 0, build returns 0 and reports no failure; and build leaves the project
\* and the workspace as they were.
C6_Build ==
  /\ []C6_BuildOutcome
  /\ [][last'.op = "build" => UNCHANGED <<projVars, remoteVars>>]_vars

\* a build failed with the timeout's exit code
C6_Witness ==
  /\ last.op = "build" /\ ~last.exec[1].raise
  /\ last.exec[1].code = 124
  /\ last.raised = "BuildError"

\* C7: whatever exit code and output the remote command returns, run
\* returns that exit code and that output, and prove returns that exit
\* code: none of them raises for it.
C7_ExitCodeIsData ==
  /\ (last.op = "run" /\ last.exec # <<>> /\ ~last.exec[1].raise) =>
       /\ last.raised = "None"
       /\ last.ret_code = last.exec[1].code
       /\ last.ret_out = last.exec[1].out
  /\ (last.op = "prove" /\ last.exec # <<>> /\ ~last.exec[1].raise) =>
       /\ last.raised = "None"
       /\ last.ret_code = last.exec[1].code

\* a run whose remote command ended with the exit code of the timeout
C7_Witness ==
  /\ last.op = "run" /\ last.exec # <<>> /\ ~last.exec[1].raise
  /\ last.exec[1].code = 124
  /\ last.ret_code = 124 /\ last.ret_out = last.exec[1].out

\* the content of the last file of the list, main.adc
AdcOfProject == file_list[Len(file_list)].content

\* C8: the content of the restrictions file is the baseline block when the
\* project is not in spark mode, and the baseline block, one newline, and
\* the spark block, in that order, when it is.
C8_Restrictions ==
  Assembled =>
    LET a == AdcOfProject
        n == Len(COMMON_ADC)
    IN  /\ file_list[Len(file_list)].name = ADC_NAME
        /\ ~spark_mode => a = COMMON_ADC
        /\ spark_mode =>
             /\ Len(a) = n + 1 + Len(SPARK_ADC)
             /\ SubSeq(a, 1, n) = COMMON_ADC
             /\ a[n + 1] = NL
             /\ SubSeq(a, n + 2, Len(a)) = SPARK_ADC

\* a project in spark mode was assembled
C8_Witness ==
  /\ Assembled /\ spark_mode
  /\ Len(AdcOfProject) > Len(COMMON_ADC)

\* the entries of an archive are the files of the list, in its order
EntriesOf(a, fl) ==
  /\ Len(a) = Len(fl)
  /\ \A i \in 1..Len(a) : a[i].name = fl[i].name /\ a[i].data = fl[i].content

C9_SameEntries ==
  /\ \A a \in archives : EntriesOf(a, file_list)
  /\ \A a, b \in archives :
       (\A i \in 1..Len(a) : a[i].date_time = b[i].date_time) => a = b

TokenStarts(s) ==
  { i \in 1..Len(s) : s[i] \notin Whitespace /\ (i = 1 \/ s[i - 1] \in Whitespace) }

TokenEnds(s) ==
  { i \in 1..Len(s) : s[i] \notin Whitespace /\ (i = Len(s) \/ s[i + 1] \in Whitespace) }

\* t is the list of the whitespace-separated tokens of s
IsTokensOf(t, s) ==
  /\ Len(t) = Cardinality(TokenStarts(s))
  /\ \A k \in 1..Len(t) :
       \E a \in TokenStarts(s), b \in TokenEnds(s) :
         /\ a <= b
         /\ Cardinality({ x \in TokenStarts(s) : x < a }) = k - 1
         /\ \A j \in a..b : s[j] \notin Whitespace
         /\ t[k] = SubSeq(s, a, b)

NonReserved == { i \in 1..Len(files) : files[i].basename \notin {CLI_FILE, LAB_IO_FILE} }

CliInputs == { i \in 1..Len(files) : files[i].basename = CLI_FILE }

\* C10: the file list of an assembled project is the uploaded files other
\* than cli.txt and lab_io.txt, in their input order, then main.gpr, then
\* main.adc; cli.txt and lab_io.txt are not in the list; and the cli is the
\* list of the whitespace-separated tokens of the content of cli.txt.
C10_FileList ==
  Assembled =>
    LET n == Cardinality(NonReserved)
    IN  /\ Len(file_list) = n + 2
        /\ \A i \in NonReserved :
             LET k == Cardinality({ j \in NonReserved : j <= i })
             IN  /\ file_list[k].name = files[i].basename
                 /\ file_list[k].content = files[i].contents
        /\ file_list[n + 1].name = TEMPLATE_PROJECT_NAME
        /\ file_list[n + 2].name = ADC_NAME
        /\ \A k \in 1..Len(file_list) :
             file_list[k].name \notin {CLI_FILE, LAB_IO_FILE}
        /\ CliInputs = {} => cli = None
        /\ CliInputs # {} =>
             /\ cli # None
             /\ \E i \in CliInputs :
                  /\ \A j \in CliInputs : j <= i
                  /\ IsTokensOf(cli[1], files[i].contents)

\* a cli.txt with two tokens was uploaded before a source file, with a
\* lab_io.txt or a second reserved file left out of the list
C10_Witness ==
  /\ Assembled
  /\ Len(files) = 2
  /\ files[1].basename = CLI_FILE /\ files[2].basename \notin {CLI_FILE, LAB_IO_FILE}
  /\ Len(cli[1]) = 2
  /\ Len(file_list) = 3

\* the typed errors of the project
FatalErrors ==
  {"ProjectError", "BuildError", "RunError", "ProveError", "SubmitError"}

\* C11 as stated: every operation that ends in a typed error has sent a
\* console or stderr line to the progress channel before it raised.
C11_EveryFatalReports ==
  last.raised \in FatalErrors =>
    \E i \in 1..Len(last.events) : last.events[i].kind \in {"console", "stderr"}

\* C11: of the typed errors only BuildError is reported on the progress
\* channel before it propagates: the last event of the failed build is the
\* stderr line of the failure.  ProjectError, RunError, ProveError and
\* SubmitError propagate with no event sent at all.
C11_OnlyBuildReports ==
  /\ last.raised = "BuildError" =>
       /\ last.events # <<>>
       /\ last.events[Len(last.events)] = BuildFailed
  /\ last.raised \in FatalErrors \ {"BuildError"} => last.events = <<>>

C11_Witness ==
  /\ last.op = "submit"
  /\ last.raised = "SubmitError"
  /\ last.events = <<>>

\* the directories of the object, once its constructor has named them
LocalGone == local_tempd[1] \notin local_dirs

RemoteGone == \A d \in container : d.path # remote_tempd[1]

\* C12 as stated: __del__ called when the local or the remote directory of
\* the object is already gone (a second call among them) ends without error
\* (a failure of the transport to the container apart) and leaves neither
\* directory behind.
C12_Idempotent ==
  [][ ( /\ last'.op = "del"
        /\ local_tempd # None
        /\ (LocalGone \/ RemoteGone)
        /\ last'.raised # "ContainerError" )
      => ( /\ last'.raised = "None"
           /\ LocalGone'
           /\ RemoteGone' ) ]_vars

\* C13 as stated: after a constructor that failed at any step (assembly,
\* mkdtemp, container.mkdir, container.push_files), __del__ ends without
\* error (a failure of the transport to the container apart) and leaves
\* nothing of what the constructor created.
C13_DestroyAfterFailedInit ==
  [][ ( /\ phase = "failed"
        /\ last'.op = "del"
        /\ last'.raised # "ContainerError" )
      => ( /\ last'.raised = "None"
           /\ local_dirs' = {}
           /\ container' = {} ) ]_vars

\* C14 as stated: the workspace of a staged object is released on the exit
\* path of its holder, not by a later finalization: once the holder has
\* left, both directories are gone; and __del__ has run once at most.
C14_ReleasedOnExit ==
  (phase = "staged" /\ owner # "caller") =>
    /\ LocalGone
    /\ RemoteGone
    /\ dels + (IF owner = "finalized" THEN 1 ELSE 0) <= 1

\* submit went into its loop
InLoop == last.op = "submit" /\ last.raised \notin {"SubmitError", "AttributeError"}

\* C15 as stated: the k-th run of submit is the run of the k-th case in
\* parse order: its command line carries exactly the input of that case,
\* empty or not and whatever self.cli is, its event is tagged with the key
\* of the case, and its result is what the case records.
C15_CaseRuns ==
  InLoop =>
    \A k \in 1..Len(last.exec) :
      LET lab == lab_list[1][k]
      IN  /\ lab.key = k
          /\ last.events[k] = Event("console", Some(lab.key), RunConsole(lab.input))
          /\ last.remote[k] = RemoteCall("execute_noenv", RunLine(lab.input))
          /\ ~last.exec[k].raise =>
               /\ lab.actual = Some(last.exec[k].out)
               /\ lab.code = Some(last.exec[k].code)

\* C16: submit stops at the first run that raises: the error propagates, no
\* later case is run, the cases from the failing one on are left as they
\* were and no verdict is sent.  When no run raises, every case is run and
\* one verdict is sent, after the last run.
C16_LoopOutcome ==
  InLoop =>
    LET n == Len(last.exec)
    IN  /\ Len(last.remote) = n
        /\ \A j \in 1..(n - 1) : ~last.exec[j].raise
        /\ IF last.raised # "None"
             THEN /\ n >= 1
                  /\ last.exec[n].raise
                  /\ Len(last.successes) = n - 1
                  /\ \A i \in 1..Len(last.events) : last.events[i].kind # "lab"
             ELSE /\ n = Len(lab_list[1])
                  /\ \A j \in 1..n : ~last.exec[j].raise
                  /\ Len(last.successes) = n
                  /\ Len(last.events) = n + 1
                  /\ last.events[n + 1].kind = "lab"
                  /\ \A i \in 1..n : last.events[i].kind # "lab"

C16_FailFast ==
  /\ []C16_LoopOutcome
  /\ [][ (last'.op = "submit" /\ last'.raised = "ContainerError") =>
           \A j \in Len(last'.exec)..Len(lab_list[1]) :
             lab_list'[1][j] = lab_list[1][j] ]_vars

C16_Witness ==
  /\ last.op = "submit"
  /\ last.raised = "ContainerError"
  /\ Len(last.exec) = 1
  /\ Len(lab_list[1]) = 2

\* the cli C17 describes: the argument when one is supplied, else self.cli
\* when there is one, else the empty list
StatedCli(cli_arg) ==
  IF cli_arg # None THEN cli_arg[1]
  ELSE IF cli # None THEN cli[1]
  ELSE <<>>

\* C17 as stated: a run that reaches its command echoes and executes the
\* program with the cli argument when one is supplied, else with self.cli
\* when there is one, else with no argument.
C17_StatedCli ==
  (last.op = "run" /\ last.remote # <<>>) =>
    /\ last.events[1] = Event("console", last.lab_ref, RunConsole(StatedCli(last.cli_arg)))
    /\ last.remote[1] = RemoteCall("execute_noenv", RunLine(StatedCli(last.cli_arg)))

\* C18 as stated: build, run, prove and submit send a command to the
\* container only while the remote workspace of the object exists.
C18_OnlyWhileStaged ==
  (last.op \in {"build", "run", "prove", "submit"} /\ last.remote # <<>>) =>
    ~RemoteGone

PeerIntact(i) ==
  /\ peers[i].local_tempd[1] \in local_dirs
  /\ \E d \in container :
       /\ d.path = peers[i].remote_tempd[1]
       /\ \A k \in 1..Len(PeerFileList(i)) :
            \E m \in 1..Len(d.files) : d.files[m] = PeerFileList(i)[k]

====
